---- MODULE Spec2Model ----
(***************************************************************************)
(* A model of the Game of Life engine of src/src/lib.rs: the Universe      *)
(* struct (width, height, the packed cell buffer and the initial-state     *)
(* snapshot), its constructors and its methods.                            *)
(*                                                                         *)
(* A FixedBitSet is modelled as a record [length, bits] where bits is a    *)
(* function 0..length-1 -> BOOLEAN.  A method that can panic returns a     *)
(* record with an ok flag; a panic leaves the universe as it was at the    *)
(* point of the panic and sets panicked, after which no method runs.       *)
(*                                                                         *)
(* width, height, row and column are u32.  Their products and sums are     *)
(* computed in 32 bits, on two 16-bit limbs: a build without overflow      *)
(* checks wraps them around, a build with overflow checks panics           *)
(* (overflow_checks is the build's choice).                                *)
(***************************************************************************)
EXTENDS Integers, Sequences, FiniteSets

VARIABLES width, height, cells, init_states, panicked, last, built, budget,
          scan, overflow_checks

vars == <<width, height, cells, init_states, panicked, last, built, budget,
          scan, overflow_checks>>

(***************************************************************************)
(* Bounds of the model.                                                    *)
(***************************************************************************)
\* Spec: new(h, w), set_width(w), set_height(h), toggle_cell(r, c) draw
\* their arguments from 0..MaxDim.
MaxDim == 3
\* Spec: new(h, w) builds buffers of at most MaxCells bits.
MaxCells == 6
\* Spec, SpecReset: set_cells draws lists of at most MaxList coordinates.
MaxList == 2
\* SpecTick: every grid of 1..TickDim rows and columns and at most
\* TickCells cells, in every cell state.
TickDim == 4
TickCells == 12
\* SpecPattern: grids of 1..PatDim rows and columns.
PatDim == 5
\* SpecReset: at most MaxOps calls after the constructor.
MaxOps == 3
\* SpecReset: new_randomized draws from the random sources 0..MaxRandom.
MaxRandom == 1
\* SpecScan: every grid of 1..ScanDim rows and columns and at most
\* ScanCells cells, in every cell state.
ScanDim == 3
ScanCells == 9

(***************************************************************************)
(* FixedBitSet (the fixedbitset crate), as lib.rs uses it.                 *)
(***************************************************************************)
\* FixedBitSet::with_capacity(n): n bits, all false.
with_capacity(n) == [length |-> n, bits |-> [i \in 0..(n - 1) |-> FALSE]]

\* self.cells[i]: Index<usize> is contains(i), false for i >= length.
contains(b, i) == IF i >= 0 /\ i < b.length THEN b.bits[i] ELSE FALSE

\* b.set(i, enabled): panics (assert) when i >= length.
fbs_set(b, i, enabled) ==
    IF i < b.length
    THEN [ok |-> TRUE, val |-> [b EXCEPT !.bits[i] = enabled]]
    ELSE [ok |-> FALSE, val |-> b]

\* b.toggle(i): panics (assert) when i >= length.
fbs_toggle(b, i) ==
    IF i < b.length
    THEN [ok |-> TRUE, val |-> [b EXCEPT !.bits[i] = ~b.bits[i]]]
    ELSE [ok |-> FALSE, val |-> b]

\* b.set_range(0..size, enabled): panics (assert) when size > length; the
\* length of the buffer is not changed.
fbs_set_range(b, size, enabled) ==
    IF size <= b.length
    THEN [ok |-> TRUE,
          val |-> [b EXCEPT !.bits =
                     [i \in 0..(b.length - 1) |->
                        IF i < size THEN enabled ELSE b.bits[i]]]]
    ELSE [ok |-> FALSE, val |-> b]

(***************************************************************************)
(* u32 arithmetic.  A u32 result is [overflow, hi, lo]: its low 32 bits as *)
(* two 16-bit limbs, and whether the true result had more.  The operands   *)
(* are below 2^31.                                                         *)
(***************************************************************************)
Limb == 65536

\* a * b in u32.  a and b are split in two limbs and the low limb of a in
\* two bytes, so that no partial product reaches 2^31.
u32_mul(a, b) ==
    LET a1 == a \div Limb
        a0 == a % Limb
        b1 == b \div Limb
        b0 == b % Limb
        \* a0 * b0 = 256 * s + u % 256
        u == (a0 % 256) * b0
        s == ((a0 \div 256) * b0) + (u \div 256)
        \* a * b = a1 * b1 * 2^32 + (x + y + c) * 2^16 + lo
        lo == ((s % 256) * 256) + (u % 256)
        x == a1 * b0
        y == a0 * b1
        c == s \div 256
        m == (x % Limb) + (y % Limb) + (c % Limb)
        carry == (x \div Limb) + (y \div Limb) + (c \div Limb)
                   + (m \div Limb)
    IN  [overflow |-> a1 * b1 > 0 \/ carry > 0, hi |-> m % Limb, lo |-> lo]

\* x + c in u32, x a u32 result.
u32_add(x, c) ==
    LET l == x.lo + (c % Limb)
        h == x.hi + (c \div Limb) + (l \div Limb)
    IN  [overflow |-> x.overflow \/ (h \div Limb) > 0,
         hi |-> h % Limb, lo |-> l % Limb]

\* The number that stands for every usize from 2^31 - 1 up: it is beyond
\* the length of every buffer of the model.
Beyond == (((Limb \div 2) - 1) * Limb) + (Limb - 1)

\* x as usize: the low 32 bits of a u32 result.
as_usize(x) ==
    IF x.hi < (Limb \div 2) THEN (x.hi * Limb) + x.lo ELSE Beyond

\* The build's outcome of an operation whose u32 arithmetic overflows when
\* overflowed: with overflow checks the panic, the universe as it is at
\* that point (at); without, the wrapped result res.
build(checks, overflowed, at, res) ==
    IF checks /\ overflowed THEN [at EXCEPT !.panicked = TRUE] ELSE res

(***************************************************************************)
(* The Universe, as a record, and its methods as operators on it.          *)
(***************************************************************************)
Self == [width |-> width, height |-> height, cells |-> cells,
         init_states |-> init_states, panicked |-> panicked]

\* Universe::new(height, width)
new(h, w) ==
    LET c == with_capacity(as_usize(u32_mul(w, h)))
    IN  [width |-> w, height |-> h, cells |-> c, init_states |-> c,
         panicked |-> FALSE]

\* A slip in new_fixed: && in place of ||.
new_fixed_both ==
    LET w == 64
        h == 64
        size == w * h
        c == [length |-> size,
              bits |-> [i \in 0..(size - 1) |-> i % 2 = 0 /\ i % 7 = 0]]
    IN  [width |-> w, height |-> h, cells |-> c, init_states |-> c,
         panicked |-> FALSE]

\* Universe::new_fixed
new_fixed ==
    LET w == 64
        h == 64
        size == w * h
        c == [length |-> size,
              bits |-> [i \in 0..(size - 1) |-> i % 2 = 0 \/ i % 7 = 0]]
    IN  [width |-> w, height |-> h, cells |-> c, init_states |-> c,
         panicked |-> FALSE]

\* Math::random() >= 0.5 for cell i, as the random source src draws it:
\* source 0 draws below 0.5 for every cell, source 1 at least 0.5 for
\* every cell, source m at least 0.5 for every m-th cell.
random_draw(src, i) == src > 0 /\ i % src = 0

\* Universe::new_randomized
new_randomized(src) ==
    LET w == 64
        h == 64
        size == w * h
        c == [length |-> size,
              bits |-> [i \in 0..(size - 1) |-> random_draw(src, i)]]
    IN  [width |-> w, height |-> h, cells |-> c, init_states |-> c,
         panicked |-> FALSE]

\* A slip in get_index: the row stride is the height.
get_index_stride_height(self, row, column) == row * self.height + column

\* row * width + column in u32, as usize.
u32_index(row, w, column) == as_usize(u32_add(u32_mul(row, w), column))

\* Universe::get_index.  When row, width and column are all below 2^15 the
\* product is below 2^30 and the sum below 2^31: nothing overflows and the
\* limbs are not needed.
get_index(self, row, column) ==
    IF row < Limb \div 2 /\ self.width < Limb \div 2 /\ column < Limb \div 2
    THEN row * self.width + column
    ELSE u32_index(row, self.width, column)

\* The arithmetic of get_index(row, column) overflows.
get_index_overflows(self, row, column) ==
    u32_add(u32_mul(row, self.width), column).overflow

\* A slip in reset_cells: the range ends one bit early.
reset_cells_keeps_last(self) ==
    LET size == self.width * self.height
        r == fbs_set_range(self.cells, size - 1, FALSE)
    IN  IF r.ok THEN [self EXCEPT !.cells = r.val]
        ELSE [self EXCEPT !.panicked = TRUE]

\* Universe::reset_cells
reset_cells(self) ==
    LET size == as_usize(u32_mul(self.width, self.height))
        r == fbs_set_range(self.cells, size, FALSE)
    IN  IF r.ok THEN [self EXCEPT !.cells = r.val]
        ELSE [self EXCEPT !.panicked = TRUE]

\* Universe::set_width
set_width(self, w) == reset_cells([self EXCEPT !.width = w])

\* Universe::set_height
set_height(self, h) == reset_cells([self EXCEPT !.height = h])

\* A slip in reset_init_state: it clears the cells.
reset_init_state_clears(self) == reset_cells(self)

\* Universe::reset_init_state
reset_init_state(self) == [self EXCEPT !.cells = self.init_states]

\* Universe::toggle_cell
toggle_cell(self, row, column) ==
    LET idx == get_index(self, row, column)
        r == fbs_toggle(self.cells, idx)
    IN  IF r.ok THEN [self EXCEPT !.cells = r.val]
        ELSE [self EXCEPT !.panicked = TRUE]

\* A slip in the loop of set_cells: each entry toggles its cell.
RECURSIVE set_cells_from_toggles(_, _, _)
set_cells_from_toggles(self, list, k) ==
    IF k > Len(list) THEN self
    ELSE LET idx == get_index(self, list[k][1], list[k][2])
             r == fbs_toggle(self.cells, idx)
         IN  IF r.ok
             THEN set_cells_from_toggles([self EXCEPT !.cells = r.val],
                                         list, k + 1)
             ELSE [self EXCEPT !.panicked = TRUE]

\* Universe::set_cells: the loop over the list, entry k onwards; a panic
\* keeps the cells set by the entries before it.
RECURSIVE set_cells_from(_, _, _)
set_cells_from(self, list, k) ==
    IF k > Len(list) THEN self
    ELSE LET idx == get_index(self, list[k][1], list[k][2])
             r == fbs_set(self.cells, idx, TRUE)
         IN  IF r.ok
             THEN set_cells_from([self EXCEPT !.cells = r.val], list, k + 1)
             ELSE [self EXCEPT !.panicked = TRUE]

\* A variant of set_cells that takes the snapshot anew after seeding.
set_cells_snapshots(self, list) ==
    LET u == set_cells_from(self, list, 1)
    IN  IF u.panicked THEN u ELSE [u EXCEPT !.init_states = u.cells]

set_cells(self, list) == set_cells_from(self, list, 1)

\* A slip in live_neighbor_count: south and east do not wrap around.
live_neighbor_count_no_wrap(self, row, column) ==
    LET north == IF row = 0 THEN self.height - 1 ELSE row - 1
        south == row + 1
        west == IF column = 0 THEN self.width - 1 ELSE column - 1
        east == column + 1
        bit(r, c) == IF r < self.height /\ c < self.width
                        /\ contains(self.cells, get_index(self, r, c))
                     THEN 1 ELSE 0
    IN  bit(north, west) + bit(north, column) + bit(north, east)
          + bit(row, west) + bit(row, east)
          + bit(south, west) + bit(south, column) + bit(south, east)

\* A slip in live_neighbor_count: the neighbours are looked up in the
\* snapshot.
live_neighbor_count_of_snapshot(self, row, column) ==
    LET north == IF row = 0 THEN self.height - 1 ELSE row - 1
        south == IF row = self.height - 1 THEN 0 ELSE row + 1
        west == IF column = 0 THEN self.width - 1 ELSE column - 1
        east == IF column = self.width - 1 THEN 0 ELSE column + 1
        bit(i) == IF contains(self.init_states, i) THEN 1 ELSE 0
    IN  bit(get_index(self, north, west))
          + bit(get_index(self, north, column))
          + bit(get_index(self, north, east))
          + bit(get_index(self, row, west))
          + bit(get_index(self, row, east))
          + bit(get_index(self, south, west))
          + bit(get_index(self, south, column))
          + bit(get_index(self, south, east))

\* A slip in live_neighbor_count: a lookup that wraps around onto the cell
\* itself is not counted.
live_neighbor_count_skips_self(self, row, column) ==
    LET north == IF row = 0 THEN self.height - 1 ELSE row - 1
        south == IF row = self.height - 1 THEN 0 ELSE row + 1
        west == IF column = 0 THEN self.width - 1 ELSE column - 1
        east == IF column = self.width - 1 THEN 0 ELSE column + 1
        bit(r, c) == IF (r # row \/ c # column)
                        /\ contains(self.cells, get_index(self, r, c))
                     THEN 1 ELSE 0
    IN  bit(north, west) + bit(north, column) + bit(north, east)
          + bit(row, west) + bit(row, east)
          + bit(south, west) + bit(south, column) + bit(south, east)

\* A slip in the lookups of live_neighbor_count: south and east do not
\* wrap around.
neighbor_lookups_no_wrap(self, row, column) ==
    LET north == IF row = 0 THEN self.height - 1 ELSE row - 1
        south == row + 1
        west == IF column = 0 THEN self.width - 1 ELSE column - 1
        east == column + 1
    IN  <<get_index(self, north, west), get_index(self, north, column),
          get_index(self, north, east), get_index(self, row, west),
          get_index(self, row, east), get_index(self, south, west),
          get_index(self, south, column), get_index(self, south, east)>>

\* Universe::live_neighbor_count, the indices nw, n, ne, w, e, sw, s, se it
\* looks up, in this order.
neighbor_lookups(self, row, column) ==
    LET north == IF row = 0 THEN self.height - 1 ELSE row - 1
        south == IF row = self.height - 1 THEN 0 ELSE row + 1
        west == IF column = 0 THEN self.width - 1 ELSE column - 1
        east == IF column = self.width - 1 THEN 0 ELSE column + 1
    IN  <<get_index(self, north, west), get_index(self, north, column),
          get_index(self, north, east), get_index(self, row, west),
          get_index(self, row, east), get_index(self, south, west),
          get_index(self, south, column), get_index(self, south, east)>>

\* Universe::live_neighbor_count
live_neighbor_count(self, row, column) ==
    LET bit(i) == IF contains(self.cells, i) THEN 1 ELSE 0
        at == neighbor_lookups(self, row, column)
    IN  bit(at[1]) + bit(at[2]) + bit(at[3]) + bit(at[4]) + bit(at[5])
          + bit(at[6]) + bit(at[7]) + bit(at[8])

\* The second counting strategy: the 3 x 3 double loop over the row offsets
\* height - 1, 0, 1 and the column offsets width - 1, 0, 1, each added
\* before the modulus; it visits the offset (0, 0) too and then subtracts
\* the value of the centre cell.
offset_loop_count(self, row, column) ==
    LET bit(i) == IF contains(self.cells, i) THEN 1 ELSE 0
        visit(delta_row, delta_col) ==
            bit(get_index(self, (row + delta_row) % self.height,
                                (column + delta_col) % self.width))
        loop_cols(delta_row) ==
            visit(delta_row, self.width - 1) + visit(delta_row, 0)
              + visit(delta_row, 1)
        count == loop_cols(self.height - 1) + loop_cols(0) + loop_cols(1)
    IN  count - bit(get_index(self, row, column))

\* A slip in the match of tick: a live cell with 3 live neighbours dies.
next_cell_dies_at_3(cell, live_neighbors) ==
    IF cell /\ live_neighbors < 2 THEN FALSE
    ELSE IF cell /\ live_neighbors >= 3 THEN FALSE
    ELSE IF ~cell /\ live_neighbors = 3 THEN TRUE
    ELSE cell

\* The match of Universe::tick: the next state of a cell.
next_cell(cell, live_neighbors) ==
    IF cell /\ live_neighbors < 2 THEN FALSE
    ELSE IF cell /\ live_neighbors > 3 THEN FALSE
    ELSE IF ~cell /\ live_neighbors = 3 THEN TRUE
    ELSE cell

\* A slip in the loop body of tick: the cell and its neighbours are read
\* from the buffer being written (an update in place).
tick_cell_in_place(self, next, row, col) ==
    LET written == [self EXCEPT !.cells = next]
        live_neighbors == live_neighbor_count(written, row, col)
        idx == get_index(self, row, col)
        cell == contains(next, idx)
    IN  fbs_set(next, idx, next_cell(cell, live_neighbors))

\* Universe::tick, the body of the inner loop for one (row, col): the write
\* into the scratch buffer next.
tick_cell(self, next, row, col) ==
    LET live_neighbors == live_neighbor_count(self, row, col)
        idx == get_index(self, row, col)
        cell == contains(self.cells, idx)
    IN  fbs_set(next, idx, next_cell(cell, live_neighbors))

\* Universe::tick, the inner loop, for col in lo..hi of one row, in
\* increasing order: the columns of the first half of the range, then those
\* of the second half (halving keeps the evaluation shallow).  The result
\* is [ok, val, n]: the scratch buffer after these columns and the number
\* of turns of the loop body that completed.
RECURSIVE tick_cols(_, _, _, _, _)
tick_cols(self, next, row, lo, hi) ==
    IF lo >= hi THEN [ok |-> TRUE, val |-> next, n |-> 0]
    ELSE IF hi = lo + 1
    THEN LET r == tick_cell(self, next, row, lo)
         IN  [ok |-> r.ok, val |-> r.val, n |-> IF r.ok THEN 1 ELSE 0]
    ELSE LET mid == (lo + hi) \div 2
             r == tick_cols(self, next, row, lo, mid)
             t == tick_cols(self, r.val, row, mid, hi)
         IN  IF r.ok THEN [t EXCEPT !.n = r.n + t.n] ELSE r

\* Universe::tick, the outer loop, for row in lo..hi, in increasing order,
\* each row running for col in 0..self.width.
RECURSIVE tick_rows(_, _, _, _)
tick_rows(self, next, lo, hi) ==
    IF lo >= hi THEN [ok |-> TRUE, val |-> next, n |-> 0]
    ELSE IF hi = lo + 1 THEN tick_cols(self, next, lo, 0, self.width)
    ELSE LET mid == (lo + hi) \div 2
             r == tick_rows(self, next, lo, mid)
             t == tick_rows(self, r.val, mid, hi)
         IN  IF r.ok THEN [t EXCEPT !.n = r.n + t.n] ELSE r

\* Universe::tick, the two loops on the clone of the cells.
tick_loops(self) == tick_rows(self, self.cells, 0, self.height)

\* A slip in tick: the previous generation is kept as the snapshot.
tick_snapshots(self) ==
    LET r == tick_loops(self)
    IN  IF r.ok
        THEN [self EXCEPT !.cells = r.val, !.init_states = self.cells]
        ELSE [self EXCEPT !.panicked = TRUE]

\* Universe::tick: next = cells.clone(); the loops; cells = next.
tick(self) ==
    LET r == tick_loops(self)
    IN  IF r.ok THEN [self EXCEPT !.cells = r.val]
        ELSE [self EXCEPT !.panicked = TRUE]

(***************************************************************************)
(* The state machine.  last records the last call, its arguments and the   *)
(* universe before it.  built records the constructor, the grid it         *)
(* produced and, when a set_cells seeded the universe right after new,     *)
(* the pattern, its position, the list and the grid after it.  budget is   *)
(* the number of calls still allowed (-1: no limit).  scan is the frame of *)
(* a tick that runs cell by cell: whether it is running, the (row, col)    *)
(* its loops are at and its scratch buffer next.                           *)
(***************************************************************************)
NoScan == [on |-> FALSE, row |-> 0, col |-> 0, next |-> with_capacity(0)]

NoCall(op, h, w) ==
    [op |-> op, row |-> h, col |-> w, list |-> <<>>, pre |-> new(0, 0)]

\* The state after the constructor op(h, w) returned u, or panicked, in a
\* build with or without overflow checks, b calls allowed.
Built(u, op, h, w, b, checks) ==
    /\ width = u.width
    /\ height = u.height
    /\ cells = u.cells
    /\ init_states = u.init_states
    /\ panicked = u.panicked
    /\ last = NoCall(op, h, w)
    /\ built = [ctor |-> op, grid |-> u.cells, pattern |-> "none",
                seed |-> <<>>, row |-> 0, col |-> 0, start |-> u.cells]
    /\ budget = b
    /\ scan = NoScan
    /\ overflow_checks = checks

\* The state after a constructor whose arithmetic does not overflow: the
\* two builds give the same universe, and the one without overflow checks
\* stands for both.
Constructed(u, op, h, w, b) == Built(u, op, h, w, b, FALSE)

\* A call of a method: the universe becomes res.
Call(op, row, col, list, res) ==
    /\ ~panicked
    /\ ~scan.on
    /\ budget # 0
    /\ width' = res.width
    /\ height' = res.height
    /\ cells' = res.cells
    /\ init_states' = res.init_states
    /\ panicked' = res.panicked
    /\ last' = [op |-> op, row |-> row, col |-> col, list |-> list, pre |-> Self]
    /\ budget' = IF budget < 0 THEN budget ELSE budget - 1
    /\ UNCHANGED <<scan, overflow_checks>>

Dims == 0..MaxDim

\* Dimensions of which some products do not fit in 32 bits:
\* 4 * 2^30 = 2^32 and 4 * (2^30 + 1) = 2^32 + 4.
WideDims == {0, 1, 4, 1073741824, 1073741825}

\* Rows and columns for toggle_cell on such universes:
\* 3 * (2^30 + 1) + 2^30 = 2^32 + 3.
WideCoords == {0, 3, 1073741824}

\* The coordinates set_cells lists are made of: both are cells of a grid
\* with two rows and two columns; (0, 1) has its column out of range when
\* width < 2 and (1, 0) its row out of range when height < 2.
ListCoords == {<<0, 1>>, <<1, 0>>}

Lists == UNION {[1..n -> ListCoords] : n \in 0..MaxList}

Tick ==
    /\ Call("tick", 0, 0, <<>>, tick(Self))
    /\ UNCHANGED built

\* toggle_cell(row, col), row and col in S; with overflow checks the
\* arithmetic of get_index panics when it overflows.
ToggleCellIn(S) ==
    \E row \in S, col \in S :
        /\ Call("toggle_cell", row, col, <<>>,
                build(overflow_checks, get_index_overflows(Self, row, col),
                      Self, toggle_cell(Self, row, col)))
        /\ UNCHANGED built

ToggleCell == ToggleCellIn(Dims)

ToggleCellWide == ToggleCellIn(WideCoords)

SetCells ==
    \E list \in Lists :
        /\ Call("set_cells", 0, 0, list, set_cells(Self, list))
        /\ UNCHANGED built

\* set_cells(list) as the first call on a universe built by new:
\* programmatic seeding.  built records the pattern and the grid after it.
Seed(pattern, row, col, list) ==
    /\ last.op = "new"
    /\ Call("set_cells", 0, 0, list, set_cells(Self, list))
    /\ built' = [built EXCEPT !.pattern = pattern, !.seed = list,
                              !.row = row, !.col = col,
                              !.start = set_cells(Self, list).cells]

SeedCells == \E list \in Lists : Seed("list", 0, 0, list)

\* The 2 x 2 block whose top left cell is (row, col), on the torus.
Block(row, col) ==
    <<<<row, col>>, <<row, (col + 1) % width>>,
      <<(row + 1) % height, col>>, <<(row + 1) % height, (col + 1) % width>>>>

\* The three horizontally consecutive cells whose centre is (row, col), on
\* the torus.
Blinker(row, col) ==
    <<<<row, (col + width - 1) % width>>, <<row, col>>,
      <<row, (col + 1) % width>>>>

SeedBlock ==
    \E row \in 0..(height - 1), col \in 0..(width - 1) :
        /\ height >= 2
        /\ width >= 2
        /\ Seed("block", row, col, Block(row, col))

SeedBlinker ==
    \E row \in 0..(height - 1), col \in 0..(width - 1) :
        /\ width >= 3
        /\ Seed("blinker", row, col, Blinker(row, col))

\* toggle_cell of one of the cells of ListCoords.
ToggleListed ==
    \E rc \in ListCoords :
        /\ Call("toggle_cell", rc[1], rc[2], <<>>,
                toggle_cell(Self, rc[1], rc[2]))
        /\ UNCHANGED built

\* set_width(w), w in S; with overflow checks the product of reset_cells
\* panics when it overflows, the width already assigned.
SetWidthIn(S) ==
    \E w \in S :
        /\ Call("set_width", 0, w, <<>>,
                build(overflow_checks, u32_mul(w, height).overflow,
                      [Self EXCEPT !.width = w], set_width(Self, w)))
        /\ UNCHANGED built

SetWidth == SetWidthIn(Dims)

SetWidthWide == SetWidthIn(WideDims)

\* set_height(h), h in S, likewise.
SetHeightIn(S) ==
    \E h \in S :
        /\ Call("set_height", h, 0, <<>>,
                build(overflow_checks, u32_mul(width, h).overflow,
                      [Self EXCEPT !.height = h], set_height(Self, h)))
        /\ UNCHANGED built

SetHeight == SetHeightIn(Dims)

SetHeightWide == SetHeightIn(WideDims)

ResetCells ==
    /\ Call("reset_cells", 0, 0, <<>>,
            build(overflow_checks, u32_mul(width, height).overflow,
                  Self, reset_cells(Self)))
    /\ UNCHANGED built

ResetInitState ==
    /\ Call("reset_init_state", 0, 0, <<>>, reset_init_state(Self))
    /\ UNCHANGED built

\* tick, cell by cell.  TickBegin: let mut next = self.cells.clone(), and
\* the loops start at (0, 0).
TickBegin ==
    /\ ~panicked
    /\ ~scan.on
    /\ budget # 0
    /\ scan' = [on |-> TRUE, row |-> 0, col |-> 0, next |-> cells]
    /\ last' = [op |-> "tick", row |-> 0, col |-> 0, list |-> <<>>,
                pre |-> Self]
    /\ UNCHANGED <<width, height, cells, init_states, panicked, built,
                   budget, overflow_checks>>

\* The loops of the running tick have no cell left: for row in
\* 0..self.height has ended, or for col in 0..self.width is empty.
ScanEnded == scan.row >= height \/ width = 0

\* One turn of the inner loop: the body for (scan.row, scan.col), then the
\* next col, or the next row when the row is done.  A panic of next.set
\* ends the tick, the cells as they were.
TickStep ==
    /\ scan.on
    /\ ~ScanEnded
    /\ LET r == tick_cell(Self, scan.next, scan.row, scan.col)
           last_col == scan.col + 1 >= width
       IN  IF r.ok
           THEN /\ scan' = [on |-> TRUE,
                            row |-> IF last_col THEN scan.row + 1 ELSE scan.row,
                            col |-> IF last_col THEN 0 ELSE scan.col + 1,
                            next |-> r.val]
                /\ UNCHANGED panicked
           ELSE /\ scan' = NoScan
                /\ panicked' = TRUE
    /\ UNCHANGED <<width, height, cells, init_states, last, built, budget,
                   overflow_checks>>

\* After the loops: self.cells = next.
TickEnd ==
    /\ scan.on
    /\ ScanEnded
    /\ cells' = scan.next
    /\ scan' = NoScan
    /\ budget' = IF budget < 0 THEN budget ELSE budget - 1
    /\ UNCHANGED <<width, height, init_states, panicked, last, built,
                   overflow_checks>>

\* Spec: every universe new(h, w) builds, and every method.
Init ==
    \E h \in Dims, w \in Dims :
        /\ w * h <= MaxCells
        /\ Constructed(new(h, w), "new", h, w, -1)

Next ==
    \/ Tick
    \/ ToggleCell
    \/ SetCells
    \/ SetWidth
    \/ SetHeight
    \/ ResetCells
    \/ ResetInitState

Spec == Init /\ [][Next]_vars

\* The universe after new(h, w) and a set_cells of the cells whose indices
\* are in live.
seeded(h, w, live) ==
    [new(h, w) EXCEPT !.cells.bits = [i \in 0..(w * h - 1) |-> i \in live]]

\* SpecTick: every grid of at least one row and column and at most
\* TickCells cells, in every cell state, and tick.
InitTick ==
    \E h \in 1..TickDim, w \in 1..TickDim :
        /\ w * h <= TickCells
        /\ \E live \in SUBSET (0..(w * h - 1)) :
              Constructed(seeded(h, w, live), "new", h, w, -1)

NextTick == Tick

SpecTick == InitTick /\ [][NextTick]_vars

\* SpecScan: every grid of at least one row and column and at most
\* ScanCells cells, in every cell state, and tick running cell by cell.
InitScan ==
    \E h \in 1..ScanDim, w \in 1..ScanDim :
        /\ w * h <= ScanCells
        /\ \E live \in SUBSET (0..(w * h - 1)) :
              Constructed(seeded(h, w, live), "new", h, w, -1)

NextScan ==
    \/ TickBegin
    \/ TickStep
    \/ TickEnd

SpecScan == InitScan /\ [][NextScan]_vars

\* SpecOverflow: new(h, w) for dimensions of which some products do not
\* fit in 32 bits, in a build with and in a build without overflow checks;
\* then at most MaxOps calls of set_width, set_height, reset_cells and
\* toggle_cell.  The universes whose buffer would have more than MaxCells
\* bits are left out.  With overflow checks the product in new panics when
\* it overflows, and no universe is built.
InitOverflow ==
    \E checks \in BOOLEAN, h \in WideDims, w \in WideDims :
        /\ as_usize(u32_mul(w, h)) <= MaxCells
        /\ Built(build(checks, u32_mul(w, h).overflow, new(0, 0), new(h, w)),
                 "new", h, w, MaxOps, checks)

NextOverflow ==
    \/ SetWidthWide
    \/ SetHeightWide
    \/ ResetCells
    \/ ToggleCellWide

SpecOverflow == InitOverflow /\ [][NextOverflow]_vars

\* SpecPattern: new(h, w), a block or a blinker set by set_cells at any
\* position, and then any number of ticks.
InitPattern ==
    \E h \in 1..PatDim, w \in 1..PatDim :
        Constructed(new(h, w), "new", h, w, -1)

NextPattern ==
    \/ SeedBlock
    \/ SeedBlinker
    \/ Tick

SpecPattern == InitPattern /\ [][NextPattern]_vars

\* SpecReset: a universe of any of the three constructors, seeded by
\* set_cells when new built it, then at most MaxOps calls of tick,
\* toggle_cell and reset_init_state.
InitReset ==
    \/ \E h \in Dims, w \in Dims :
          /\ w * h <= MaxCells
          /\ Constructed(new(h, w), "new", h, w, MaxOps)
    \/ Constructed(new_fixed, "new_fixed", 64, 64, MaxOps)
    \/ \E src \in 0..MaxRandom :
          Constructed(new_randomized(src), "new_randomized", 64, 64, MaxOps)

NextReset ==
    \/ SeedCells
    \/ Tick
    \/ ToggleListed
    \/ ResetInitState

SpecReset == InitReset /\ [][NextReset]_vars

(***************************************************************************)
(* The words of the claims.                                                *)
(***************************************************************************)
\* (row, col) is a cell of the grid of u.
InGrid(u, row, col) == row >= 0 /\ row < u.height /\ col >= 0 /\ col < u.width

\* The bit of u's cell buffer at index i.
BitAt(u, i) == i >= 0 /\ i < u.cells.length /\ u.cells.bits[i]

\* The cell (row, col) of u is alive: the bit at row * width + col.
Alive(u, row, col) == BitAt(u, row * u.width + col)

\* The cells of the grid of u.
GridCells(u) == (0..(u.height - 1)) \X (0..(u.width - 1))

\* The live cells of the grid of u.
LiveCells(u) == {rc \in GridCells(u) : Alive(u, rc[1], rc[2])}

\* The neighbour count as the specification words it: the sum, over the 8
\* offsets (dr, dc) other than (0, 0), of the bit at
\* ((row + dr + height) mod height) * width + ((col + dc + width) mod width).
WrappedBit(u, row, col, dr, dc) ==
    IF BitAt(u, ((row + dr + u.height) % u.height) * u.width
                  + ((col + dc + u.width) % u.width))
    THEN 1 ELSE 0

WrappedCount(u, row, col) ==
    WrappedBit(u, row, col, -1, -1) + WrappedBit(u, row, col, -1, 0)
      + WrappedBit(u, row, col, -1, 1) + WrappedBit(u, row, col, 0, -1)
      + WrappedBit(u, row, col, 0, 1) + WrappedBit(u, row, col, 1, -1)
      + WrappedBit(u, row, col, 1, 0) + WrappedBit(u, row, col, 1, 1)

(***************************************************************************)
(* Spec: claims about the methods in every reachable state.                *)
(***************************************************************************)
\* C3 (as claimed): in every state reached by calls that completed, the
\* length of the cell buffer is width * height.
C3_LengthIsWidthTimesHeight == ~panicked => cells.length = width * height

\* C4 (as claimed): set_width or set_height on a grid with a live cell, for
\* any new dimension, completes and leaves a grid of the new dimensions in
\* which every cell is dead.
C4_ResizeCompletesAllDead ==
    (last.op \in {"set_width", "set_height"} /\ LiveCells(last.pre) # {})
    => /\ ~panicked
       /\ width = (IF last.op = "set_width" THEN last.col ELSE last.pre.width)
       /\ height = (IF last.op = "set_height" THEN last.row ELSE last.pre.height)
       /\ LiveCells(Self) = {}

\* C7, first half: toggle_cell(row, col) with row < height and col < width
\* flips the bit at row * width + col and leaves every other bit, the
\* length of the buffer, width, height and the snapshot unchanged.
C7_FlipsOneBit ==
    (last.op = "toggle_cell" /\ InGrid(last.pre, last.row, last.col))
    => /\ ~panicked
       /\ width = last.pre.width
       /\ height = last.pre.height
       /\ init_states = last.pre.init_states
       /\ cells.length = last.pre.cells.length
       /\ \A i \in 0..(cells.length - 1) :
             cells.bits[i] = (IF i = last.row * last.pre.width + last.col
                              THEN ~last.pre.cells.bits[i]
                              ELSE last.pre.cells.bits[i])

\* C7, second half: a second toggle of the same cell right after the first
\* restores the cell buffer.
C7_TwiceRestores ==
    (/\ last.op = "toggle_cell"
     /\ InGrid(last.pre, last.row, last.col)
     /\ last'.op = "toggle_cell"
     /\ last'.row = last.row
     /\ last'.col = last.col)
    => (cells' = last.pre.cells /\ ~panicked')

\* C7: toggle_cell(row, col) with row < height and col < width flips the bit
\* at index row * width + col and leaves every other bit of the cell
\* buffer, the width, the height and the initial snapshot unchanged; two
\* consecutive toggles of the same cell restore the grid.
C7_ToggleCell == []C7_FlipsOneBit /\ [][C7_TwiceRestores]_vars

\* C7 witness: an in-range toggle of a cell of the second row of a grid
\* whose width and height differ has made that cell alive.
C7_Witness ==
    /\ last.op = "toggle_cell"
    /\ InGrid(last.pre, last.row, last.col)
    /\ last.row >= 1
    /\ width # height
    /\ Alive(Self, last.row, last.col)
    /\ ~Alive(last.pre, last.row, last.col)

\* Some coordinate of the last call is outside the grid.
LastOutOfRange ==
    \/ last.op = "toggle_cell" /\ ~InGrid(last.pre, last.row, last.col)
    \/ /\ last.op = "set_cells"
       /\ \E k \in 1..Len(last.list) :
             ~InGrid(last.pre, last.list[k][1], last.list[k][2])

\* C8 (as claimed): toggle_cell or set_cells with a row >= height or a
\* col >= width aborts and changes no cell.
C8_OutOfRangeAbortsUnchanged ==
    LastOutOfRange => (panicked /\ cells = last.pre.cells)

\* The cells a list names.
Listed(list) == {list[k] : k \in 1..Len(list)}

\* Every entry of the last call's list is a cell of the grid.
LastListInRange ==
    \A k \in 1..Len(last.list) :
        InGrid(last.pre, last.list[k][1], last.list[k][2])

\* C13: set_cells(list) with every (row, col) in range makes the listed
\* cells alive in addition to those already alive: every listed cell is
\* alive afterwards, every unlisted cell (and every bit of the buffer that
\* is not a listed cell's) keeps its state, and every list of the same
\* cells, in any order and with any repetition, gives the same result.
C13_SetCellsAddsListed ==
    (last.op = "set_cells" /\ LastListInRange)
    => /\ ~panicked
       /\ width = last.pre.width
       /\ height = last.pre.height
       /\ init_states = last.pre.init_states
       /\ cells.length = last.pre.cells.length
       /\ LiveCells(Self) = LiveCells(last.pre) \cup Listed(last.list)
       /\ \A i \in 0..(cells.length - 1) :
             cells.bits[i]
               = (\/ last.pre.cells.bits[i]
                  \/ \E rc \in Listed(last.list) : i = rc[1] * width + rc[2])
       /\ \A other \in Lists :
             Listed(other) = Listed(last.list)
             => set_cells(last.pre, other) = Self

\* C13 witness: a set_cells of two different cells, one alive before and
\* one dead before, in a grid where an unlisted cell was alive and still
\* is.
C13_Witness ==
    /\ last.op = "set_cells"
    /\ LastListInRange
    /\ Len(last.list) = 2
    /\ last.list[1] # last.list[2]
    /\ Alive(last.pre, last.list[1][1], last.list[1][2])
    /\ ~Alive(last.pre, last.list[2][1], last.list[2][2])
    /\ Alive(Self, last.list[2][1], last.list[2][2])
    /\ \E rc \in LiveCells(last.pre) \ Listed(last.list) :
          Alive(Self, rc[1], rc[2])

\* C14: the snapshot is set only at construction: after any calls of tick,
\* toggle_cell, set_cells, reset_cells, set_width, set_height and
\* reset_init_state, completed or not, it is the grid the constructor
\* produced.
C14_SnapshotIsConstructed == init_states = built.grid

\* C14 witness: a tick has changed the cells of a grid with live cells,
\* and the snapshot is still the constructor's grid.
C14_Witness ==
    /\ last.op = "tick"
    /\ LiveCells(last.pre) # {}
    /\ cells # last.pre.cells
    /\ cells # init_states
    /\ init_states = built.grid

\* C17: reset_cells, in any reachable state, completes, leaves every cell
\* (row, col) with row < height and col < width dead and leaves the width,
\* the height, the length of the cell buffer and the snapshot unchanged.
C17_ResetCellsClearsGrid ==
    last.op = "reset_cells"
    => /\ ~panicked
       /\ \A rc \in GridCells(Self) : ~Alive(Self, rc[1], rc[2])
       /\ width = last.pre.width
       /\ height = last.pre.height
       /\ cells.length = last.pre.cells.length
       /\ init_states = last.pre.init_states

\* C17 witness: reset_cells on a grid with a live cell, in a buffer longer
\* than width * height (after a set_width or set_height that shrank the
\* grid).
C17_Witness ==
    /\ last.op = "reset_cells"
    /\ LiveCells(last.pre) # {}
    /\ LiveCells(Self) = {}
    /\ cells.length > width * height
    /\ cells.length = last.pre.cells.length

\* The indices tick reads or writes for the cell (row, col): the index of
\* the cell and the 8 lookups of its neighbours.
TickIndices(u, row, col) ==
    {get_index(u, row, col)}
      \cup {neighbor_lookups(u, row, col)[k] : k \in 1..8}

\* C15: tick is total: from every state reached by calls that did not
\* abort (grids of 1 row or column or with a zero dimension, and grids
\* after set_width, set_height and reset_init_state among them) tick
\* completes, after exactly width * height turns of the loop body, and
\* every index it reads or writes is at most width * height - 1 and
\* inside the cell buffer.
C15_TickIsTotal ==
    last.op = "tick"
    => /\ ~panicked
       /\ tick_loops(last.pre).ok
       /\ tick_loops(last.pre).n = last.pre.width * last.pre.height
       /\ \A rc \in GridCells(last.pre) :
             \A i \in TickIndices(last.pre, rc[1], rc[2]) :
                /\ i >= 0
                /\ i <= last.pre.width * last.pre.height - 1
                /\ i < last.pre.cells.length

\* C15 witness: a tick of a grid of 1 row which set_height had shrunk, the
\* buffer longer than width * height, has changed the cells.
C15_Witness ==
    /\ last.op = "tick"
    /\ ~panicked
    /\ height = 1
    /\ width >= 2
    /\ cells.length > width * height
    /\ cells # last.pre.cells

\* C15 witness of the zero dimensions: a tick of a grid of width 0 and
\* height 1 or more, with bits still set in its buffer, has completed.
C15_WitnessZero ==
    /\ last.op = "tick"
    /\ ~panicked
    /\ width = 0
    /\ height >= 1
    /\ \E i \in 0..(cells.length - 1) : cells.bits[i]

(***************************************************************************)
(* SpecTick: claims about tick and live_neighbor_count on every grid.      *)
(***************************************************************************)
\* C1: after one tick each cell of the grid is dead if it was alive with
\* fewer than 2 or more than 3 live neighbours, alive if it was dead with
\* exactly 3, and otherwise as before, the neighbours counted (with
\* wraparound) in the grid before the tick.
C1_TickAppliesRule ==
    last.op = "tick"
    => /\ ~panicked
       /\ width = last.pre.width
       /\ height = last.pre.height
       /\ \A rc \in GridCells(last.pre) :
             LET was == Alive(last.pre, rc[1], rc[2])
                 n == WrappedCount(last.pre, rc[1], rc[2])
                 now == Alive(Self, rc[1], rc[2])
             IN  /\ (was /\ (n < 2 \/ n > 3)) => ~now
                 /\ (~was /\ n = 3) => now
                 /\ ~((was /\ (n < 2 \/ n > 3)) \/ (~was /\ n = 3))
                      => (now = was)

\* C1 witness: a tick in which a live cell with more than 3 live
\* neighbours died, a dead cell was born and a live cell survived.
C1_Witness ==
    /\ last.op = "tick"
    /\ \E rc \in GridCells(last.pre) :
          /\ Alive(last.pre, rc[1], rc[2])
          /\ WrappedCount(last.pre, rc[1], rc[2]) > 3
          /\ ~Alive(Self, rc[1], rc[2])
    /\ \E rc \in GridCells(last.pre) :
          /\ ~Alive(last.pre, rc[1], rc[2])
          /\ Alive(Self, rc[1], rc[2])
    /\ \E rc \in GridCells(last.pre) :
          /\ Alive(last.pre, rc[1], rc[2])
          /\ Alive(Self, rc[1], rc[2])

\* C2: for every grid with width >= 1 and height >= 1, dimensions 1 and 2
\* included, live_neighbor_count(row, col) is the sum over the 8 offsets of
\* the bit at the wrapped row and column; a live cell at
\* (height-1, width-1) is counted as a neighbour of (0, 0) and vice versa.
C2_CountIsWrappedSum ==
    /\ \A rc \in GridCells(Self) :
          live_neighbor_count(Self, rc[1], rc[2])
            = WrappedCount(Self, rc[1], rc[2])
    /\ Alive(Self, height - 1, width - 1)
         => live_neighbor_count(Self, 0, 0) >= 1
    /\ Alive(Self, 0, 0)
         => live_neighbor_count(Self, height - 1, width - 1) >= 1

\* C2 witness: in a 3 x 3 grid whose only live cell is (2, 2), the count of
\* (0, 0) is 1.
C2_Witness ==
    /\ height = 3
    /\ width = 3
    /\ LiveCells(Self) = {<<2, 2>>}
    /\ live_neighbor_count(Self, 0, 0) = 1

\* C2 witness of the small grids: in a grid of 1 row and 2 columns with
\* both cells alive every one of the 8 offsets of (0, 0) lands on a live
\* cell, the cell itself included.
C2_WitnessSmall ==
    /\ height = 1
    /\ width = 2
    /\ live_neighbor_count(Self, 0, 0) = 8

\* C11: for every grid state and every cell, the 8 named lookups of
\* live_neighbor_count and the 3 x 3 offset double loop that visits (0, 0)
\* and subtracts the centre cell return the same count, grids of width or
\* height 1 or 2 included.
C11_CountersAgree ==
    \A rc \in GridCells(Self) :
        live_neighbor_count(Self, rc[1], rc[2])
          = offset_loop_count(Self, rc[1], rc[2])

\* C11 witness: in a grid of 2 rows and 1 column with both cells alive,
\* both counters of (0, 0) return 8: four offsets land on the cell itself,
\* and the double loop has visited it a fifth time as the centre.
C11_Witness ==
    /\ height = 2
    /\ width = 1
    /\ LiveCells(Self) = {<<0, 0>>, <<1, 0>>}
    /\ live_neighbor_count(Self, 0, 0) = 8
    /\ offset_loop_count(Self, 0, 0) = 8

(***************************************************************************)
(* SpecScan: claims about the scan of tick.                                *)
(***************************************************************************)
\* The value the rule gives a cell that was alive or dead (was) with n live
\* neighbours.
RuleValue(was, n) == (was /\ n \in {2, 3}) \/ (~was /\ n = 3)

\* The number of cells the loops of the running tick have processed, in
\* row-major order.
Processed == scan.row * width + scan.col

\* C12, while the scan runs: the current grid is the previous generation;
\* the scratch buffer holds, for each cell already processed, the rule's
\* value for the cell and its neighbours in the previous generation, and
\* for each cell not yet processed its previous value.
C12_ScanReadsPrevious ==
    scan.on
    => /\ ~panicked
       /\ cells = last.pre.cells
       /\ scan.next.length = cells.length
       /\ Processed <= width * height
       /\ \A i \in 0..(cells.length - 1) :
             scan.next.bits[i]
               = (IF i < Processed
                  THEN RuleValue(BitAt(last.pre, i),
                                 WrappedCount(last.pre, i \div width, i % width))
                  ELSE BitAt(last.pre, i))

\* C12, the steps: the current grid changes in one step only, which comes
\* after all width * height cells are processed and makes the scratch
\* buffer the current grid.
C12_SwapAfterLastCell ==
    cells' # cells
    => /\ scan.on
       /\ Processed = width * height
       /\ cells' = scan.next
       /\ ~scan'.on

\* C12: while tick scans the cells in row-major order the grid it reads
\* stays equal to the previous generation until the last cell is written
\* to the scratch buffer, which replaces the current grid in one step after
\* all width * height cells are processed; no cell's next state depends on
\* a value written earlier in the same tick.
C12_ScanFromPrevious ==
    []C12_ScanReadsPrevious /\ [][C12_SwapAfterLastCell]_vars

\* C12 witness: in the middle of a scan the scratch buffer already differs
\* from the current grid at a processed cell that is a neighbour of the
\* cell processed next, and the current grid is still the previous
\* generation.
C12_Witness ==
    /\ scan.on
    /\ Processed >= 1
    /\ Processed < width * height
    /\ cells = last.pre.cells
    /\ scan.next.bits[Processed - 1] # cells.bits[Processed - 1]
    /\ scan.col >= 1

(***************************************************************************)
(* SpecReset: claims about reset_init_state.                               *)
(***************************************************************************)
\* C5: for a universe built by new_fixed or new_randomized, after any
\* sequence of tick and in-range toggle_cell calls, reset_init_state leaves
\* the cell buffer equal bit for bit to the one the constructor produced.
C5_ResetRestoresConstructed ==
    (built.ctor \in {"new_fixed", "new_randomized"}
       /\ last.op = "reset_init_state")
    => (~panicked /\ cells = built.grid)

\* C5 witness: reset_init_state on a new_fixed universe whose cells had
\* been changed by a tick or a toggle.
C5_Witness ==
    /\ built.ctor = "new_fixed"
    /\ last.op = "reset_init_state"
    /\ last.pre.cells # built.grid
    /\ cells = built.grid

\* The universe was built by new and then seeded by a set_cells whose
\* coordinates are all cells of the grid.
SeededInRange ==
    /\ built.ctor = "new"
    /\ built.pattern = "list"
    /\ \A k \in 1..Len(built.seed) :
          InGrid(Self, built.seed[k][1], built.seed[k][2])

SeedSet == {built.seed[k] : k \in 1..Len(built.seed)}

\* C6 (as claimed): for a universe built by new and seeded with
\* set_cells(S), after any sequence of tick and toggle_cell calls,
\* reset_init_state leaves exactly the cells of S alive.
C6_ResetRestoresSeed ==
    (SeededInRange /\ last.op = "reset_init_state")
    => LiveCells(Self) = SeedSet

\* C6 (amended): for a universe built by new and seeded with set_cells(S),
\* after any sequence of tick and toggle_cell calls, reset_init_state
\* leaves the grid new produced: every cell dead.
C6_ResetRestoresNew ==
    (SeededInRange /\ last.op = "reset_init_state")
    => (~panicked /\ cells = built.grid /\ LiveCells(Self) = {})

\* C6 witness: reset_init_state on a universe seeded with a live cell,
\* some cell still alive before the reset, leaves no cell alive.
C6_Witness ==
    /\ SeededInRange
    /\ SeedSet # {}
    /\ last.op = "reset_init_state"
    /\ LiveCells(last.pre) # {}
    /\ LiveCells(Self) = {}

\* C16: new_fixed yields width 64 and height 64, cell i alive iff
\* i mod 2 = 0 or i mod 7 = 0 for every i in 0..4095, and a snapshot equal
\* to that grid.
C16_NewFixedPattern ==
    last.op = "new_fixed"
    => /\ ~panicked
       /\ width = 64
       /\ height = 64
       /\ cells.length = 4096
       /\ \A i \in 0..4095 : BitAt(Self, i) = (i % 2 = 0 \/ i % 7 = 0)
       /\ init_states = cells

\* C16 witness: the universe new_fixed returned: cells 7 and 4095 (odd
\* multiples of 7) and cell 4094 alive, cells 1 and 4093 dead.
C16_Witness ==
    /\ last.op = "new_fixed"
    /\ BitAt(Self, 7)
    /\ BitAt(Self, 4094)
    /\ BitAt(Self, 4095)
    /\ ~BitAt(Self, 1)
    /\ ~BitAt(Self, 4093)
    /\ init_states = cells

\* The universe of the same width, height and cells as u whose snapshot
\* differs from u's in every bit, and which no call has been made on.
Twin(u) ==
    [u EXCEPT !.init_states.bits = [i \in DOMAIN @ |-> ~@[i]]]

\* C18: two universes with equal width, height and cells have equal cells
\* after one tick each, whatever their snapshots and histories: the tick
\* of the universe, reached by any calls, and the tick of its twin end
\* alike.
C18_TickIgnoresSnapshotAndHistory ==
    last.op = "tick"
    => LET other == tick(Twin(last.pre))
       IN  /\ other.cells = cells
           /\ other.panicked = panicked

\* C18 witness: a tick that changed the cells of a new_fixed universe
\* which earlier calls had already changed; the tick of the twin gives
\* the same cells.
C18_Witness ==
    /\ built.ctor = "new_fixed"
    /\ last.op = "tick"
    /\ last.pre.cells # built.grid
    /\ cells # last.pre.cells
    /\ Twin(last.pre).init_states # last.pre.init_states
    /\ tick(Twin(last.pre)).cells = cells

(***************************************************************************)
(* SpecOverflow: dimensions whose product does not fit in 32 bits.         *)
(***************************************************************************)
\* C19 (as claimed): dimensions whose product does not fit in 32 bits are
\* rejected: new(height, width), set_width and set_height abort instead of
\* going on with the cell count (width * height) mod 2^32, and a
\* toggle_cell whose row * width + column does not fit in 32 bits aborts,
\* the cells unchanged, instead of using the index modulo 2^32.
C19_OverflowRejected ==
    /\ (last.op = "new" /\ u32_mul(last.col, last.row).overflow)
         => panicked
    /\ (last.op \in {"set_width", "set_height"}
           /\ u32_mul(width, height).overflow)
         => panicked
    /\ (last.op = "toggle_cell"
           /\ get_index_overflows(last.pre, last.row, last.col))
         => (panicked /\ cells = last.pre.cells)

\* The second half of C19 alone: no toggle_cell flips the bit at
\* (row * width + column) mod 2^32 when row * width + column does not fit
\* in 32 bits.
C19_IndexNotWrapped ==
    (last.op = "toggle_cell"
       /\ get_index_overflows(last.pre, last.row, last.col))
    => cells = last.pre.cells

\* With overflow checks every overflow is a panic.
OverflowChecksReject == overflow_checks => C19_OverflowRejected

(***************************************************************************)
(* SpecPattern: the still life and the oscillator.                         *)
(***************************************************************************)
\* After the seeding the grid is the seeded pattern, whatever the number
\* of ticks since.
SameAsSeeded == cells = built.start

\* C9 (as claimed): a 2 x 2 block in a grid with width >= 2, height >= 2
\* and at least one other cell is unchanged by any number of ticks.
C9_BlockStillFrom2 ==
    (built.pattern = "block" /\ width >= 2 /\ height >= 2
       /\ width * height > 4)
    => SameAsSeeded

\* C9 (amended): a 2 x 2 block in a grid with width >= 3 and height >= 3 is
\* unchanged by any number of ticks.
C9_BlockStillFrom3 ==
    (built.pattern = "block" /\ width >= 3 /\ height >= 3) => SameAsSeeded

\* C9 witness: a tick has left the block that wraps around both edges of
\* the grid as it was.
C9_Witness ==
    /\ built.pattern = "block"
    /\ width >= 3
    /\ height >= 3
    /\ built.row = height - 1
    /\ built.col = width - 1
    /\ last.op = "tick"
    /\ LiveCells(Self) = {<<0, 0>>, <<0, width - 1>>, <<height - 1, 0>>,
                          <<height - 1, width - 1>>}

\* The three vertically consecutive cells through the centre of the
\* seeded blinker, on the torus.
Vertical ==
    {<<(built.row + height - 1) % height, built.col>>,
     <<built.row, built.col>>,
     <<(built.row + 1) % height, built.col>>}

\* A tick of the seeded blinker yields the vertical three, and a tick of
\* the vertical three yields the seeded blinker.
BlinkerAlternates ==
    last.op = "tick"
    => /\ last.pre.cells = built.start => LiveCells(Self) = Vertical
       /\ LiveCells(last.pre) = Vertical => cells = built.start

\* C10 (as claimed): a horizontal blinker in a grid with width >= 3 and
\* height >= 3 becomes the vertical three after one tick and is restored
\* by the second.
C10_BlinkerFrom3 ==
    (built.pattern = "blinker" /\ width >= 3 /\ height >= 3)
    => BlinkerAlternates

\* C10 (amended): a horizontal blinker in a grid with width >= 4 and
\* height >= 4 becomes the vertical three after one tick and is restored
\* by the second.
C10_BlinkerFrom4 ==
    (built.pattern = "blinker" /\ width >= 4 /\ height >= 4)
    => BlinkerAlternates

\* C10 witness: the second tick has restored a blinker that wraps around
\* the left edge of the grid, in its top row.
C10_Witness ==
    /\ built.pattern = "blinker"
    /\ width >= 4
    /\ height >= 4
    /\ built.row = 0
    /\ built.col = 0
    /\ last.op = "tick"
    /\ LiveCells(last.pre) = Vertical
    /\ cells = built.start

====
